---- MODULE Spec2Model ----
(***************************************************************************)
(* Model of the LLM client wrapper call_llm.py, in its two copies:         *)
(*   src/utils/call_llm.py        ("utils": a chunk is handed back to      *)
(*                                 call_llm)                               *)
(*   src/_site/utils/call_llm.py  ("site": a chunk is sent to the remote   *)
(*                                 API directly, up to 3 attempts under a  *)
(*                                 SIGALRM timeout)                        *)
(* call_llm (direct mode and its retry loop), chunk_text and               *)
(* split_into_sentences are the same text in both copies.                  *)
(*                                                                         *)
(* A Python str is a sequence of one-character strings.  A response text   *)
(* is a sequence of tokens: a response of the remote model, the "\n\n"     *)
(* that joins chunk results, or a failure marker.                          *)
(***************************************************************************)
EXTENDS Integers, Sequences, FiniteSets, TLC

VARIABLES
    text,             \* chunker run: the text given to chunk_text
    max_size,         \* chunker run: the max_size given to chunk_text
    segments,         \* chunker run: the list chunk_text returned
    cpc,              \* chunker run: "idle" | "ready" | "done"
    variant,          \* which copy of call_llm.py runs: "utils" | "site"
    cache,            \* llm_cache.json as last written: prompt text -> response text
    cache_corrupt,    \* llm_cache.json exists and json.load raises on it
    stack,            \* the active calls of call_llm, innermost last
    truncated,        \* outer frames of the stack are no longer represented
    prompt,           \* the prompt of the current top-level call
    use_cache,        \* the use_cache argument of the current top-level call
    status,           \* "idle" | "running" | "returned" | "raised" | "lost"
    result,           \* what the top-level call returned (or the exception it raised)
    remote_called,    \* generate_content was invoked during the current top-level call
    store_lost,       \* a store of the current top-level call did not reach the file
    last_write,       \* outcome of the most recent store: "none" | "ok" | ...
    prev,             \* the previous top-level call: its arguments and outcome
    ncalls,           \* top-level calls started so far
    log,              \* the audit log file: its records since the top-level call began
    bo,               \* retry loop run on its own: counters, last failure and its waits
    writers,          \* store race: two processes in the store of lines 116-130
    pg                \* progress run: the chunk loop of utils and its progress threads

cvars == <<text, max_size, segments, cpc>>
fvars == <<cache, cache_corrupt>>
hvars == <<remote_called, store_lost, last_write, log>>
tvars == <<variant, prompt, use_cache, prev, ncalls>>
ovars == <<fvars, hvars, tvars, stack, truncated, status, result>>
bvars == <<bo>>
rvars == <<writers>>
pvars == <<pg>>
vars == <<cvars, bvars, rvars, pvars, ovars>>

(***************************************************************************)
(* Strings                                                                 *)
(***************************************************************************)
NL == "\n"
SP == " "

\* str.strip() with no argument removes whitespace at both ends.
Whitespace == {SP, NL}

IsPrefix(p, s) ==
    /\ Len(p) <= Len(s)
    /\ SubSeq(s, 1, Len(p)) = p

Drop(s, n) == SubSeq(s, n + 1, Len(s))

\* str.find: the index of the first occurrence of sep in s, 0 when there is none.
Find(s, sep) ==
    LET hits == {i \in 1..(Len(s) - Len(sep) + 1) : SubSeq(s, i, i + Len(sep) - 1) = sep}
    IN  IF hits = {} THEN 0 ELSE CHOOSE i \in hits : \A j \in hits : i <= j

\* str.split(sep): non-overlapping occurrences from the left, empty pieces kept.
RECURSIVE Split(_, _)
Split(s, sep) ==
    LET k == Find(s, sep)
    IN  IF k = 0 THEN <<s>>
        ELSE <<SubSeq(s, 1, k - 1)>> \o Split(Drop(s, k + Len(sep) - 1), sep)

\* str.replace(old, new): non-overlapping occurrences from the left.
RECURSIVE Replace(_, _, _)
Replace(s, old, new) ==
    LET k == Find(s, old)
    IN  IF k = 0 THEN s
        ELSE SubSeq(s, 1, k - 1) \o new \o Replace(Drop(s, k + Len(old) - 1), old, new)

RECURSIVE LStrip(_)
LStrip(s) == IF s # <<>> /\ Head(s) \in Whitespace THEN LStrip(Tail(s)) ELSE s

RECURSIVE RStrip(_)
RStrip(s) ==
    IF s # <<>> /\ s[Len(s)] \in Whitespace THEN RStrip(SubSeq(s, 1, Len(s) - 1)) ELSE s

Strip(s) == RStrip(LStrip(s))

\* sep.join(list)
RECURSIVE Join(_, _)
Join(list, sep) ==
    IF list = <<>> THEN <<>>
    ELSE IF Len(list) = 1 THEN list[1]
    ELSE list[1] \o sep \o Join(Tail(list), sep)

(***************************************************************************)
(* split_into_sentences and chunk_text                                     *)
(***************************************************************************)
SPLIT == <<"[", "S", "P", "L", "I", "T", "]">>

Delimiters == << <<".", SP>>, <<"!", SP>>, <<"?", SP>>,
                 <<".", NL>>, <<"!", NL>>, <<"?", NL>> >>

\* for delimiter in [...]: text = text.replace(delimiter, delimiter + "[SPLIT]")
RECURSIVE MarkDelimiters(_, _)
MarkDelimiters(s, k) ==
    IF k > Len(Delimiters) THEN s
    ELSE MarkDelimiters(Replace(s, Delimiters[k], Delimiters[k] \o SPLIT), k + 1)

\* [s.strip() for s in sentences if s.strip()]
RECURSIVE StripNonEmpty(_)
StripNonEmpty(list) ==
    IF list = <<>> THEN <<>>
    ELSE LET h == Strip(Head(list))
         IN  (IF h = <<>> THEN <<>> ELSE <<h>>) \o StripNonEmpty(Tail(list))

split_into_sentences(s) == StripNonEmpty(Split(MarkDelimiters(s, 1), SPLIT))

\* The state of chunk_text's loops: the finished chunks and the running chunk.
Acc(chunks, current) == [chunks |-> chunks, current |-> current]

\* for sentence in sentences: ...   (no "substantial" gate)
RECURSIVE PackSentences(_, _, _)
PackSentences(sentences, acc, max) ==
    IF sentences = <<>> THEN acc
    ELSE LET sentence == Head(sentences)
             next == IF Len(acc.current) + Len(sentence) + 1 > max
                     THEN Acc(Append(acc.chunks, acc.current), sentence)
                     ELSE Acc(acc.chunks,
                              IF acc.current # <<>>
                              THEN acc.current \o <<SP>> \o sentence
                              ELSE sentence)
         IN  PackSentences(Tail(sentences), next, max)

\* The body of "for paragraph in paragraphs".  len(current) > max_size * 0.5 is
\* 2 * len(current) > max_size.
PackParagraph(paragraph, acc, max) ==
    IF Len(acc.current) + Len(paragraph) + 2 > max
    THEN IF 2 * Len(acc.current) > max
         THEN Acc(Append(acc.chunks, acc.current), paragraph)
         ELSE IF Len(paragraph) > max
              THEN PackSentences(split_into_sentences(paragraph), acc, max)
              ELSE Acc(Append(acc.chunks, acc.current), paragraph)
    ELSE Acc(acc.chunks,
             IF acc.current # <<>>
             THEN acc.current \o <<NL, NL>> \o paragraph
             ELSE paragraph)

RECURSIVE PackParagraphs(_, _, _)
PackParagraphs(paragraphs, acc, max) ==
    IF paragraphs = <<>> THEN acc
    ELSE PackParagraphs(Tail(paragraphs), PackParagraph(Head(paragraphs), acc, max), max)

chunk_text(s, max) ==
    IF Len(s) <= max THEN <<s>>
    ELSE LET acc == PackParagraphs(Split(s, <<NL, NL>>), Acc(<<>>, <<>>), max)
         IN  IF acc.current # <<>> THEN Append(acc.chunks, acc.current) ELSE acc.chunks

(***************************************************************************)
(* The retry/backoff policy: the except block of call_llm's retry loop     *)
(***************************************************************************)
\* str(e) is a sequence of lexemes: a phrase the code searches for or splits on is
\* one lexeme, and so is a digit.  Durations are in milliseconds, factors in
\* thousandths.
RETRY_DELAY == "'retryDelay': '"
S_QUOTE == "s'"

\* sub in s
Contains(s, sub) == Find(s, sub) # 0

\* "retryDelay" in error_msg: the key in the format of line 162 or in another one.
HasRetryDelay(msg) == Contains(msg, <<RETRY_DELAY>>) \/ Contains(msg, <<"retryDelay">>)

IsConnectionReset(msg) ==
    Contains(msg, <<"Connection reset">>) \/ Contains(msg, <<"ConnectError">>)

IsRateLimit(msg) == Contains(msg, <<"RESOURCE_EXHAUSTED">>) \/ Contains(msg, <<"429">>)

\* None
None == -1

Digits == {"0", "1", "2", "9"}

DigitValue(d) == CASE d = "0" -> 0 [] d = "1" -> 1 [] d = "2" -> 2 [] d = "9" -> 9

\* float(text) for a run of digits; None stands for the ValueError of any other text.
RECURSIVE ParseFloat(_)
ParseFloat(t) ==
    IF t = <<>> \/ \E k \in 1..Len(t) : t[k] \notin Digits THEN None
    ELSE IF Len(t) = 1 THEN DigitValue(t[1])
    ELSE 10 * ParseFloat(SubSeq(t, 1, Len(t) - 1)) + DigitValue(t[Len(t)])

\* Lines 162-163: error_msg.split("'retryDelay': '")[1].split("s'")[0] as a float,
\* in seconds; None when the index or the conversion raises.
ParseRetryDelay(msg) ==
    IF Len(Split(msg, <<RETRY_DELAY>>)) < 2 THEN None
    ELSE ParseFloat(Split(Split(msg, <<RETRY_DELAY>>)[2], <<S_QUOTE>>)[1])

\* The values of random.random() the runs draw, in thousandths.
Randoms == {0, 500, 1000}

\* random.uniform(a, b) is a + (b - a) * random.random() in floating point, a value
\* N with a <= N <= b.  The draw 1000 stands for the largest values of
\* random.random(), for which the rounded result reaches the end point: 0.8 + 0.4*r
\* and 1.0 + 0.2*r are 1.2, and 45 + random.uniform(0, 15) is 60.0.
Uniform(a, b, r) == a + ((b - a) * r) \div 1000

Min(a, b) == IF a <= b THEN a ELSE b

base_wait_time == 15
max_wait_time == 60
extra_wait == 180

\* Lines 155-156, with retry_count already incremented by line 140.
default_wait(retry_count, r) ==
    Min(base_wait_time + retry_count * 5, max_wait_time) * Uniform(800, 1200, r)

\* google_wait that never finds the hint.
google_wait_ignored(msg, r) == None

\* Lines 159-168.
google_wait(msg, r) ==
    IF HasRetryDelay(msg) /\ ParseRetryDelay(msg) # None
    THEN ParseRetryDelay(msg) * Uniform(1000, 1200, r)
    ELSE None

\* wait_time that looks for the rate-limit phrases first.
wait_time_rate_first(msg, retry_count, r1, r2) ==
    IF IsRateLimit(msg)
    THEN IF google_wait(msg, r2) # None THEN google_wait(msg, r2)
         ELSE default_wait(retry_count, r1)
    ELSE IF IsConnectionReset(msg) THEN 45000 + Uniform(0, 15000, r1)
         ELSE base_wait_time * 1000 + Uniform(0, 10000, r1)

\* wait_time of line 224 for a failure with message msg, by the class of lines 142,
\* 153 and 220; r1 and r2 are the draws of random.random().
wait_time(msg, retry_count, r1, r2) ==
    IF IsConnectionReset(msg) THEN 45000 + Uniform(0, 15000, r1)
    ELSE IF IsRateLimit(msg)
         THEN IF google_wait(msg, r2) # None THEN google_wait(msg, r2)
              ELSE default_wait(retry_count, r1)
         ELSE base_wait_time * 1000 + Uniform(0, 10000, r1)

\* The retry loop is not run on its own.  attempts is the counter of line 94;
\* streak and sleeps are history, not variables of the code: how many of the most
\* recent failures, counted back from the last one, were of the connection-reset
\* class, and how many times line 224 has slept.
BackoffIdle ==
    bo = [pc |-> "idle", retry_count |-> 0, connection_errors |-> 0,
          error_msg |-> <<>>, cooldown |-> 0, wait_time |-> 0,
          attempts |-> 0, streak |-> 0, sleeps |-> 0]

\* No two processes are in the store.
RaceIdle == writers = [proc |-> <<>>, last |-> 0]

\* No chunk loop is run with its progress threads.
ProgressIdle ==
    pg = [pc |-> "idle", n |-> 0, i |-> 0, flags |-> <<>>, used_cache |-> FALSE,
          threads |-> <<>>]

(***************************************************************************)
(* The orchestrator: call_llm and process_chunks_with_timeout              *)
(***************************************************************************)
\* MAX_CHUNK_SIZE is 500000 in utils and 200000 in site; the model scales it to 4
\* characters and the prompts with it.
MAX_CHUNK_SIZE == 4

\* max_retries is 20 and max_connection_errors is 10 in the source; the model keeps
\* their order (a cooldown can be reached before the retries run out) at a smaller
\* scale.
max_retries == 3
max_connection_errors == 2
MAX_CHUNK_RETRIES == 3

MaxCalls == 2
MaxDepth == 3

Variants == {"utils", "site"}

\* The prompts the callers submit: a short one, and long ones that chunk_text splits
\* into two equal chunks, into two different chunks, into an empty chunk and the
\* whole prompt again, into a chunk that is still too long, and into no chunk.
Prompts ==
    { <<"a", "b">>,
      <<"a", "b", NL, NL, "a", "b">>,
      <<"a", "b", "c", NL, NL, "a">>,
      <<"a", "a", "a", "a", "a">>,
      <<"a", "b", "c", NL, NL, "b", ".", SP, "a", "b">>,
      <<NL, NL, NL, NL, NL, NL>> }

\* Tokens of a response text.
Tok(t, p, n) == [t |-> t, p |-> p, n |-> n]

\* response.text of generate_content(contents=[p]); the remote model may answer the
\* same prompt differently in another top-level call (n: the call that asked).
Response(p, n) == <<Tok("response", p, n)>>

\* "\n\n", the separator of "\n\n".join(results)
SEP == <<Tok("nn", <<>>, 0)>>

\* f"[Error processing chunk {i+1}]" (utils)
ErrorMarker(k) == <<Tok("error_marker", <<>>, k)>>

\* f"[Failed to process chunk {i+1} after {MAX_CHUNK_RETRIES} attempts]" (site)
FailedMarker(k) == <<Tok("failed_marker", <<>>, k)>>

IsMarker(tok) == tok.t \in {"error_marker", "failed_marker"}

\* Exception(f"Failed after {max_retries} retries") and TimeoutError(...)
RetriesExhaustedError == <<Tok("exception", <<>>, max_retries)>>
TimeoutError == <<Tok("timeout_error", <<>>, 0)>>

NoCall == [prompt |-> <<>>, use_cache |-> FALSE, status |-> "none", result |-> <<>>,
           remote_called |-> FALSE, store_lost |-> FALSE]

\* One activation of call_llm; in chunked mode it also carries the locals of the
\* process_chunks_with_timeout it calls (chunks, i, results) and, in utils, the
\* progress_stop_flag of each progress thread started so far (TRUE: set); in site,
\* backoff is the time.sleep (seconds) of the latest attempt of the current chunk.
\* pause is the time.sleep (milliseconds) that follows results.append(chunk_result),
\* 0 once the next chunk has started.
Frame(p) == [prompt |-> p, pc |-> "entry", chunks |-> <<>>, i |-> 0, results |-> <<>>,
             retry_count |-> 0, connection_errors |-> 0, stop_flags |-> <<>>,
             backoff |-> 0, pause |-> 0]

\* chunk_pause that sleeps after every chunk but the last.
chunk_pause_always(k, n, used_cache, r) ==
    IF k < n THEN 30000 + Uniform(0, 15000, r) ELSE 0

\* utils lines 366-369, site lines 470-473: the sleep after chunk k of n (k = i + 1).
chunk_pause(k, n, used_cache, r) ==
    IF k < n /\ ~used_cache THEN 30000 + Uniform(0, 15000, r) ELSE 0

Top == stack[Len(stack)]

\* A record of the logger: logger.info(f"PROMPT: ..."), logger.info(f"RESPONSE: ..."),
\* logger.warning (line 74) and logger.error (line 130).
LogRec(kind, body) == [kind |-> kind, body |-> body]

\* The handler appends the records to the file.  Once outer frames are no longer
\* represented (sat) the log is no longer extended either.
Logged(recs, sat) == log' = IF sat THEN log ELSE log \o recs

SetTop(f) == [stack EXCEPT ![Len(stack)] = f]

\* json.load(f) of the cache file, with the "except: cache stays {}" around it
LoadOrEmpty == IF cache_corrupt THEN <<>> ELSE cache

\* Put that leaves the entry out of the map it returns.
PutForgotten(map, key, value) == map

\* cache[key] = value on a loaded map
Put(map, key, value) ==
    [k \in DOMAIN map \cup {key} |-> IF k = key THEN value ELSE map[k]]

\* Hit of a lookup that never finds anything.
HitNever(key) == FALSE

\* A lookup finds the key: the file parses and holds it.
Hit(key) == use_cache /\ ~cache_corrupt /\ key \in DOMAIN cache

\* open(cache_file, "w") + json.dump: "ok", or the open fails and the file is as
\* before, or the dump fails after the open truncated the file.
WriteOutcomes == {"ok", "open_fail", "dump_fail"}

\* The file after writing `map` with outcome w.
WriteFile(map, w) ==
    /\ cache' = IF w = "ok" THEN map ELSE IF w = "dump_fail" THEN <<>> ELSE cache
    /\ cache_corrupt' = IF w = "ok" THEN FALSE ELSE IF w = "dump_fail" THEN TRUE
                        ELSE cache_corrupt
    /\ last_write' = w
    /\ store_lost' = (store_lost \/ w # "ok")

\* StoreDirect that writes whatever use_cache is.
StoreDirectAlways(key, value, w) == WriteFile(Put(LoadOrEmpty, key, value), w)

\* call_llm lines 116-130: load (a parse failure gives {}), add, rewrite.
StoreDirect(key, value, w) ==
    IF use_cache THEN WriteFile(Put(LoadOrEmpty, key, value), w)
    ELSE UNCHANGED <<fvars, store_lost, last_write>>

\* site lines 433-443: the load is inside the try, so a parse failure skips the write.
StoreChunkSite(key, value, w) ==
    IF ~use_cache THEN UNCHANGED <<fvars, store_lost, last_write>>
    ELSE IF cache_corrupt
         THEN /\ UNCHANGED fvars
              /\ last_write' = "load_fail"
              /\ store_lost' = TRUE
         ELSE WriteFile(Put(cache, key, value), w)

\* Finish that sets the stop flag only when the call made for the chunk returned.
FinishFlagOnSuccess(raised, value, r) ==
    IF Len(stack) = 1
    THEN /\ stack' = <<>>
         /\ status' = IF truncated THEN "lost" ELSE IF raised THEN "raised" ELSE "returned"
         /\ result' = value
         /\ UNCHANGED truncated
    ELSE /\ stack' = Append(SubSeq(stack, 1, Len(stack) - 2),
                            [stack[Len(stack) - 1] EXCEPT
                                !.results = Append(@, IF raised
                                                      THEN ErrorMarker(stack[Len(stack) - 1].i)
                                                      ELSE value),
                                !.stop_flags = [@ EXCEPT ![Len(@)] = ~raised],
                                !.pause = chunk_pause(stack[Len(stack) - 1].i,
                                                      Len(stack[Len(stack) - 1].chunks),
                                                      FALSE, r),
                                !.i = @ + 1,
                                !.pc = "chunks"])
         /\ UNCHANGED <<status, result, truncated>>

\* The innermost call ends: `value` goes to its caller.  The top-level call ends the
\* run; a call made for a chunk (utils line 355) hands the value, or on any
\* exception the marker of line 359, to the loop that called it; r is the draw of
\* random.random() for the pause of that loop.
Finish(raised, value, r) ==
    IF Len(stack) = 1
    THEN /\ stack' = <<>>
         /\ status' = IF truncated THEN "lost" ELSE IF raised THEN "raised" ELSE "returned"
         /\ result' = value
         /\ UNCHANGED truncated
    ELSE LET caller == stack[Len(stack) - 1]
             chunk_result == IF raised THEN ErrorMarker(caller.i) ELSE value
         IN  /\ stack' = Append(SubSeq(stack, 1, Len(stack) - 2),
                                [caller EXCEPT !.results = Append(@, chunk_result),
                                               !.stop_flags = [@ EXCEPT ![Len(@)] = TRUE],
                                               !.pause = chunk_pause(caller.i,
                                                             Len(caller.chunks), FALSE, r),
                                               !.i = @ + 1,
                                               !.pc = "chunks"])
             /\ UNCHANGED <<status, result, truncated>>

\* A caller starts a top-level call.
Call(p, uc) ==
    /\ status # "running"
    /\ status # "lost"
    /\ ncalls < MaxCalls
    /\ prev' = IF status = "idle" THEN NoCall
               ELSE [prompt |-> prompt, use_cache |-> use_cache, status |-> status,
                     result |-> result, remote_called |-> remote_called,
                     store_lost |-> store_lost]
    /\ prompt' = p
    /\ use_cache' = uc
    /\ ncalls' = ncalls + 1
    /\ stack' = <<Frame(p)>>
    /\ status' = "running"
    /\ result' = <<>>
    /\ remote_called' = FALSE
    /\ store_lost' = FALSE
    /\ last_write' = "none"
    /\ log' = <<LogRec("PROMPT", p)>>
    /\ UNCHANGED <<cvars, bvars, rvars, pvars, fvars, variant, truncated>>

Running(pc) == status = "running" /\ stack # <<>> /\ Top.pc = pc

\* The prompts call_llm can receive: those of the callers, and in utils the segments
\* that process_chunks_with_timeout hands back to it (line 355).
Received ==
    Prompts \cup UNION {{chunk_text(p, MAX_CHUNK_SIZE)[k] :
                            k \in 1..Len(chunk_text(p, MAX_CHUNK_SIZE))} : p \in Prompts}

\* chunks = chunk_text(prompt, MAX_CHUNK_SIZE) (line 50), tabulated over Received.
Chunks == [p \in Received |-> chunk_text(p, MAX_CHUNK_SIZE)]

\* call_llm lines 45-54: the prompt is over the threshold.
CallLlmChunked ==
    /\ Running("entry")
    /\ Len(Top.prompt) > MAX_CHUNK_SIZE
    /\ stack' = SetTop([Top EXCEPT !.chunks = Chunks[Top.prompt],
                                   !.i = 1, !.pc = "chunks"])
    /\ UNCHANGED <<cvars, bvars, rvars, pvars, fvars, hvars, tvars, truncated, status, result>>

\* call_llm lines 67-82: the lookup finds the prompt.
CallLlmCacheHit ==
    /\ Running("entry")
    /\ Len(Top.prompt) <= MAX_CHUNK_SIZE
    /\ Hit(Top.prompt)
    /\ \E r \in Randoms : Finish(FALSE, cache[Top.prompt], r)
    /\ Logged(<<LogRec("RESPONSE", cache[Top.prompt])>>, truncated)
    /\ UNCHANGED <<cvars, bvars, rvars, pvars, fvars, remote_called, store_lost, last_write, tvars>>

\* call_llm lines 67-90: no lookup or a miss; the retry loop starts.
CallLlmCacheMiss ==
    /\ Running("entry")
    /\ Len(Top.prompt) <= MAX_CHUNK_SIZE
    /\ ~Hit(Top.prompt)
    /\ stack' = SetTop([Top EXCEPT !.pc = "attempt", !.retry_count = 0,
                                   !.connection_errors = 0])
    /\ Logged(IF use_cache /\ cache_corrupt
              THEN <<LogRec("WARNING", <<>>)>> ELSE <<>>, truncated)
    /\ UNCHANGED <<cvars, bvars, rvars, pvars, fvars, remote_called, store_lost, last_write, tvars, truncated, status, result>>

\* ApiSuccess in which a failed cache write counts as a failed attempt.
ApiSuccessWriteFatal(w) ==
    /\ Running("attempt")
    /\ Top.retry_count < max_retries
    /\ remote_called' = TRUE
    /\ StoreDirect(Top.prompt, Response(Top.prompt, ncalls), w)
    /\ Logged((IF use_cache /\ w # "ok" THEN <<LogRec("ERROR", <<>>)>> ELSE <<>>)
              \o <<LogRec("RESPONSE", Response(Top.prompt, ncalls))>>, truncated)
    /\ IF w = "ok" \/ ~use_cache
       THEN \E r \in Randoms : Finish(FALSE, Response(Top.prompt, ncalls), r)
       ELSE /\ stack' = SetTop([Top EXCEPT !.retry_count = @ + 1])
            /\ UNCHANGED <<truncated, status, result>>
    /\ UNCHANGED <<cvars, bvars, rvars, pvars, tvars>>

\* call_llm lines 92-136: an attempt succeeds.
ApiSuccess(w) ==
    /\ Running("attempt")
    /\ Top.retry_count < max_retries
    /\ remote_called' = TRUE
    /\ StoreDirect(Top.prompt, Response(Top.prompt, ncalls), w)
    /\ Logged((IF use_cache /\ w # "ok" THEN <<LogRec("ERROR", <<>>)>> ELSE <<>>)
              \o <<LogRec("RESPONSE", Response(Top.prompt, ncalls))>>, truncated)
    /\ \E r \in Randoms : Finish(FALSE, Response(Top.prompt, ncalls), r)
    /\ UNCHANGED <<cvars, bvars, rvars, pvars, tvars>>

FailureClasses == {"connection", "rate_limit", "other"}

\* call_llm lines 138-224: an attempt fails.
ApiFailure(class) ==
    /\ Running("attempt")
    /\ Top.retry_count < max_retries
    /\ remote_called' = TRUE
    /\ stack' = SetTop([Top EXCEPT
            !.retry_count = @ + 1,
            !.connection_errors =
                IF class = "connection"
                THEN (IF @ + 1 >= max_connection_errors THEN 0 ELSE @ + 1)
                ELSE @])
    /\ UNCHANGED <<cvars, bvars, rvars, pvars, fvars, store_lost, last_write, log, tvars, truncated, status, result>>

\* RetriesExhausted that returns an empty text instead of raising.
RetriesExhaustedSilently ==
    /\ Running("attempt")
    /\ Top.retry_count >= max_retries
    /\ \E r \in Randoms : Finish(FALSE, <<>>, r)
    /\ UNCHANGED <<cvars, bvars, rvars, pvars, fvars, hvars, tvars>>

\* call_llm lines 226-228: the loop ends without a response.
RetriesExhausted ==
    /\ Running("attempt")
    /\ Top.retry_count >= max_retries
    /\ \E r \in Randoms : Finish(TRUE, RetriesExhaustedError, r)
    /\ UNCHANGED <<cvars, bvars, rvars, pvars, fvars, hvars, tvars>>

InLoop == Running("chunks") /\ Top.i <= Len(Top.chunks)

Chunk == Top.chunks[Top.i]

\* utils lines 339-351, site lines 395-405: the chunk is in the cache.
ChunkCacheHit ==
    /\ InLoop
    /\ Hit(Chunk)
    /\ stack' = SetTop([Top EXCEPT
            !.results = Append(@, cache[Chunk]),
            !.stop_flags = IF variant = "utils" THEN Append(@, TRUE) ELSE @,
            !.pause = chunk_pause(Top.i, Len(Top.chunks), TRUE, 0),
            !.i = @ + 1])
    /\ UNCHANGED <<cvars, bvars, rvars, pvars, fvars, hvars, tvars, truncated, status, result>>

\* utils lines 354-355: call_llm(chunk, use_cache).  The nesting has no bound in the
\* source; beyond MaxDepth the outermost frame is dropped from the representation.
ChunkCallUtils ==
    /\ InLoop
    /\ variant = "utils"
    /\ ~Hit(Chunk)
    /\ LET waiting == SetTop([Top EXCEPT !.pc = "in_call", !.pause = 0,
                                         !.stop_flags = Append(@, FALSE)])
       IN  IF Len(stack) < MaxDepth
           THEN /\ stack' = Append(waiting, Frame(Chunk))
                /\ UNCHANGED truncated
           ELSE /\ stack' = Append(Tail(waiting), Frame(Chunk))
                /\ truncated' = TRUE
    /\ Logged(<<LogRec("PROMPT", Chunk)>>, truncated \/ Len(stack) >= MaxDepth)
    /\ UNCHANGED <<cvars, bvars, rvars, pvars, fvars, remote_called, store_lost, last_write, tvars, status, result>>

\* site lines 407-409: the chunk-level retry loop starts.
ChunkMissSite ==
    /\ InLoop
    /\ variant = "site"
    /\ ~Hit(Chunk)
    /\ stack' = SetTop([Top EXCEPT !.pc = "chunk_attempt", !.retry_count = 0,
                                   !.backoff = 0, !.pause = 0])
    /\ UNCHANGED <<cvars, bvars, rvars, pvars, fvars, hvars, tvars, truncated, status, result>>

InChunkAttempt == Running("chunk_attempt") /\ Top.retry_count < MAX_CHUNK_RETRIES

\* site lines 422-443: the direct API call for the chunk succeeds.
ChunkAttemptOkSite(w) ==
    /\ InChunkAttempt
    /\ remote_called' = TRUE
    /\ StoreChunkSite(Chunk, Response(Chunk, ncalls), w)
    /\ \E r \in Randoms :
           stack' = SetTop([Top EXCEPT
               !.results = Append(@, Response(Chunk, ncalls)),
               !.pause = chunk_pause(Top.i, Len(Top.chunks), FALSE, r),
               !.i = @ + 1, !.pc = "chunks", !.backoff = 0])
    /\ UNCHANGED <<cvars, bvars, rvars, pvars, tvars, log, truncated, status, result>>

\* site lines 445-454: the API call fails or the alarm ends it; the backoff sleep
\* (if any) passes undisturbed.
ChunkAttemptFailSite ==
    /\ InChunkAttempt
    /\ remote_called' = TRUE
    /\ stack' = SetTop([Top EXCEPT
            !.retry_count = @ + 1,
            !.backoff = IF Top.retry_count + 1 < MAX_CHUNK_RETRIES
                        THEN 30 * 2 ^ (Top.retry_count + 1 - 1)
                        ELSE 0])
    /\ UNCHANGED <<cvars, bvars, rvars, pvars, fvars, store_lost, last_write, log, tvars, truncated, status, result>>

\* site lines 420, 445-458: the API call fails before the 180 s are over and the
\* alarm, still armed, goes off during the backoff sleep inside the except block:
\* the TimeoutError is raised outside the try and leaves process_chunks_with_timeout
\* and call_llm.
ChunkAlarmInBackoffSite ==
    /\ InChunkAttempt
    /\ Top.retry_count + 1 < MAX_CHUNK_RETRIES
    /\ remote_called' = TRUE
    /\ stack' = <<>>
    /\ status' = "raised"
    /\ result' = TimeoutError
    /\ UNCHANGED <<cvars, bvars, rvars, pvars, fvars, store_lost, last_write, log, tvars, truncated>>

\* ChunkFailedSite that also stores the marker under the chunk.
ChunkFailedSiteStoresMarker ==
    /\ Running("chunk_attempt")
    /\ Top.retry_count >= MAX_CHUNK_RETRIES
    /\ \E r \in Randoms :
           stack' = SetTop([Top EXCEPT
               !.results = Append(@, FailedMarker(Top.i)),
               !.pause = chunk_pause(Top.i, Len(Top.chunks), FALSE, r),
               !.i = @ + 1, !.pc = "chunks"])
    /\ cache' = Put(LoadOrEmpty, Chunk, FailedMarker(Top.i))
    /\ cache_corrupt' = FALSE
    /\ UNCHANGED <<cvars, bvars, rvars, pvars, hvars, tvars, truncated, status, result>>

\* site lines 462-467: every attempt failed.
ChunkFailedSite ==
    /\ Running("chunk_attempt")
    /\ Top.retry_count >= MAX_CHUNK_RETRIES
    /\ \E r \in Randoms :
           stack' = SetTop([Top EXCEPT
               !.results = Append(@, FailedMarker(Top.i)),
               !.pause = chunk_pause(Top.i, Len(Top.chunks), FALSE, r),
               !.i = @ + 1, !.pc = "chunks"])
    /\ UNCHANGED <<cvars, bvars, rvars, pvars, fvars, hvars, tvars, truncated, status, result>>

\* ChunksReturn that leaves the loop one chunk early.
ChunksReturnEarly ==
    /\ Running("chunks")
    /\ Top.i >= Len(Top.chunks)
    /\ \E r \in Randoms : Finish(FALSE, Join(Top.results, SEP), r)
    /\ UNCHANGED <<cvars, bvars, rvars, pvars, fvars, hvars, tvars>>

\* process_chunks_with_timeout returns and call_llm joins (lines 54-59).
ChunksReturn ==
    /\ Running("chunks")
    /\ Top.i > Len(Top.chunks)
    /\ \E r \in Randoms : Finish(FALSE, Join(Top.results, SEP), r)
    /\ UNCHANGED <<cvars, bvars, rvars, pvars, fvars, hvars, tvars>>

\* No chunker run is in progress during a call.
ChunkerIdle ==
    /\ text = <<>>
    /\ max_size = 0
    /\ segments = <<>>
    /\ cpc = "idle"

Init ==
    /\ ChunkerIdle
    /\ BackoffIdle
    /\ RaceIdle
    /\ ProgressIdle
    /\ variant \in Variants
    /\ cache = <<>>
    /\ cache_corrupt \in BOOLEAN
    /\ stack = <<>>
    /\ truncated = FALSE
    /\ prompt = <<>>
    /\ use_cache = TRUE
    /\ status = "idle"
    /\ result = <<>>
    /\ remote_called = FALSE
    /\ store_lost = FALSE
    /\ last_write = "none"
    /\ log = <<>>
    /\ prev = NoCall
    /\ ncalls = 0

Next ==
    \/ \E p \in Prompts, uc \in BOOLEAN : Call(p, uc)
    \/ CallLlmChunked
    \/ CallLlmCacheHit
    \/ CallLlmCacheMiss
    \/ \E w \in WriteOutcomes : ApiSuccess(w)
    \/ \E class \in FailureClasses : ApiFailure(class)
    \/ RetriesExhausted
    \/ ChunkCacheHit
    \/ ChunkCallUtils
    \/ ChunkMissSite
    \/ \E w \in WriteOutcomes : ChunkAttemptOkSite(w)
    \/ ChunkAttemptFailSite
    \/ ChunkAlarmInBackoffSite
    \/ ChunkFailedSite
    \/ ChunksReturn

Spec == Init /\ [][Next]_vars

\* The calls always go on: a remote call returns or fails, a sleep ends.
FairSpec == Spec /\ WF_vars(Next)

(***************************************************************************)
(* Properties                                                              *)
(***************************************************************************)
Direct(p) == Len(p) <= MAX_CHUNK_SIZE

Caller == stack[Len(stack) - 1]

\* In this step the innermost call returns v to whoever called it.
Hands(v) ==
    IF Len(stack) = 1
    THEN status' = "returned" /\ result' = v
    ELSE /\ Len(stack') = Len(stack) - 1
         /\ stack'[Len(stack')].results = Append(Caller.results, v)

\* A step of the retry loop in which generate_content answers.
DirectSuccessStep ==
    /\ Running("attempt")
    /\ Top.retry_count < max_retries
    /\ Len(stack') < Len(stack)

\* A step of the retry loop that finds the retries used up.
ExhaustedStep == Running("attempt") /\ Top.retry_count >= max_retries

NoMarker(r) == \A k \in 1..Len(r) : ~IsMarker(r[k])

\* The representation of the stack never drops a frame that is returned to.
NoLostReturn == status # "lost"

SamePromptTwice ==
    /\ status = "returned"
    /\ prev.status = "returned"
    /\ prev.prompt = prompt
    /\ use_cache
    /\ prev.use_cache
    /\ ~prev.store_lost

ChunkExhaustedStep ==
    \/ ExhaustedStep /\ Len(stack) > 1
    \/ Running("chunk_attempt") /\ Top.retry_count >= MAX_CHUNK_RETRIES

\* The activation whose chunk loop the innermost call belongs to.
Loop == IF Top.pc = "attempt" THEN Caller ELSE Top

\* In this step the chunk loop records a failure marker for its current chunk and
\* moves on to the next.
MarkerRecorded ==
    /\ status' = "running"
    /\ stack' # <<>>
    /\ LET after == stack'[Len(stack')]
       IN  /\ after.pc = "chunks"
           /\ after.i = Loop.i + 1
           /\ Len(after.results) = Len(Loop.results) + 1
           /\ SubSeq(after.results, 1, Len(Loop.results)) = Loop.results
           /\ Len(after.results[Len(after.results)]) = 1
           /\ IsMarker(after.results[Len(after.results)][1])
           /\ after.results[Len(after.results)][1].n = Loop.i

\* Some chunk of a running chunked call already has a failure marker as its result.
SomeChunkFailed ==
    /\ status = "running"
    /\ \E d \in 1..Len(stack) : \E k \in 1..Len(stack[d].results) :
           ~NoMarker(stack[d].results[k])

\* C3: in chunked mode, when chunk k fails all of its retries the call does not
\* abort: slot k gets a failure marker, the loop goes on to the chunks after k, and
\* the call does not raise afterwards.
C3_PartialFailure ==
    [][ /\ ChunkExhaustedStep => MarkerRecorded
        /\ SomeChunkFailed => status' # "raised" ]_vars

\* The values call_llm can return for chunk c: a response to c, or (utils, a chunk
\* still over the threshold) the joined results of the chunks of c.
RECURSIVE IsResultOf(_, _, _)
IsResultOf(r, c, fuel) ==
    \/ \E n \in 1..MaxCalls : r = Response(c, n)
    \/ /\ variant = "utils"
       /\ ~Direct(c)
       /\ fuel > 0
       /\ LET sub == chunk_text(c, MAX_CHUNK_SIZE)
              parts == IF r = <<>> THEN <<>> ELSE Split(r, SEP)
          IN  /\ Len(parts) = Len(sub)
              /\ \A j \in 1..Len(sub) :
                     \/ parts[j] = ErrorMarker(j)
                     \/ IsResultOf(parts[j], sub[j], fuel - 1)

\* C4: when process_chunks_with_timeout returns for n chunks it returns n results,
\* result k being the response or the failure marker of chunk k, and call_llm returns
\* them joined with "\n\n" in chunk order.
C4_Combine ==
    [][ (Running("chunks") /\ Len(stack') < Len(stack))
            => /\ Len(Top.results) = Len(Top.chunks)
               /\ \A k \in 1..Len(Top.chunks) :
                      \/ Top.results[k] \in {ErrorMarker(k), FailedMarker(k)}
                      \/ IsResultOf(Top.results[k], Top.chunks[k], MaxDepth)
               /\ Hands(Join(Top.results, SEP)) ]_vars

\* A chunked call returned a failure marker followed by a response.
C4_Witness ==
    /\ status = "returned"
    /\ ~Direct(prompt)
    /\ Len(result) = 3
    /\ IsMarker(result[1])
    /\ result[2] = SEP[1]
    /\ result[3].t = "response"

StoreStep ==
    \/ DirectSuccessStep
    \/ InChunkAttempt /\ stack' # <<>> /\ stack'[Len(stack')].pc = "chunks"

\* C10: with a cache file that does not parse, a lookup finds nothing and the remote
\* call is made as on a miss; a store writes the map that holds just the new entry;
\* the response is returned.
C10_CorruptCacheAsEmpty ==
    [][ (cache_corrupt /\ use_cache) =>
          /\ (Running("entry") /\ Direct(Top.prompt))
                => (Len(stack') = Len(stack) /\ stack'[Len(stack')].pc = "attempt")
          /\ InLoop
                => (stack' # <<>> /\ stack'[Len(stack')].pc \in {"entry", "chunk_attempt"})
          /\ (StoreStep /\ last_write' \notin {"open_fail", "dump_fail"})
                => /\ ~cache_corrupt'
                   /\ DOMAIN cache' = {IF Top.pc = "attempt" THEN Top.prompt ELSE Chunk}
                   /\ \A key \in DOMAIN cache' :
                          IF Top.pc = "attempt" THEN Hands(cache'[key])
                          ELSE stack'[Len(stack')].results = Append(Top.results, cache'[key])
        ]_vars

WriteFailures == {"open_fail", "dump_fail"}

\* In this step the chunk loop records v as the result of its current chunk and
\* moves on to the next chunk.
ChunkResultIs(v) ==
    /\ Len(stack') = Len(stack)
    /\ stack'[Len(stack')].results = Append(Top.results, v)
    /\ stack'[Len(stack')].i = Top.i + 1
    /\ stack'[Len(stack')].pc = "chunks"

\* In this step the chunk-level loop counts one failed attempt and goes on.
AttemptCounted ==
    /\ Len(stack') = Len(stack)
    /\ stack'[Len(stack')].retry_count = Top.retry_count + 1
    /\ stack'[Len(stack')].pc = "chunk_attempt"
    /\ stack'[Len(stack')].results = Top.results
    /\ stack'[Len(stack')].i = Top.i

\* A step in which the remote call answers and the write of the cache file fails.
WriteFailedStep ==
    /\ use_cache
    /\ \E w \in WriteFailures : ApiSuccess(w) \/ ChunkAttemptOkSite(w)

\* C11: when the cache write fails after a successful remote call, the response is
\* still returned by call_llm (direct mode and the call made for a chunk) or recorded
\* as the chunk's result (site); the step is no failed attempt, no retry and no marker.
C11_WriteFailureNonFatal ==
    [][ WriteFailedStep =>
          /\ last_write' \in WriteFailures \cup {"load_fail"}
          /\ status' # "raised"
          /\ IF Top.pc = "attempt"
             THEN Hands(Response(Top.prompt, ncalls))
             ELSE ChunkResultIs(Response(Chunk, ncalls)) ]_vars

\* A chunked call lost a store to a write failure and returned responses only.
C11_Witness ==
    /\ status = "returned"
    /\ use_cache
    /\ ~Direct(prompt)
    /\ remote_called
    /\ last_write \in WriteFailures
    /\ NoMarker(result)
    /\ Len(result) > 1

\* The keys a lookup can find in the cache file.
Persisted == IF cache_corrupt THEN {} ELSE DOMAIN cache

\* C12: a key that is in the persisted cache is still in it after every later
\* operation of the process.
C12_CacheMonotone ==
    [][ \A key \in Persisted : key \in Persisted' ]_vars

\* A step in which the remote call made for a chunk answers: in utils the call_llm
\* made for the chunk, in site the chunk attempt.
ChunkSuccessStep ==
    \/ DirectSuccessStep /\ Len(stack) > 1
    \/ InChunkAttempt /\ stack' # <<>> /\ stack'[Len(stack')].pc = "chunks"

\* The chunk the innermost activation is working on.
ChunkAtWork == IF Top.pc = "attempt" THEN Top.prompt ELSE Chunk

\* The chunk whose remote call succeeds is in the file under its own text, unless
\* the write itself failed.
ChunkStored ==
    (ChunkSuccessStep /\ use_cache /\ last_write' \notin WriteFailures)
        => /\ ChunkAtWork \in Persisted'
           /\ cache'[ChunkAtWork] = Response(ChunkAtWork, ncalls)

\* The prompt of a chunked call is not a key of the file.
PromptNotKey == (status = "running" /\ ~Direct(prompt)) => prompt \notin Persisted

\* A chunk whose text is a key is served from the file without a remote call.
ChunkServed ==
    (InLoop /\ use_cache /\ Chunk \in Persisted)
        => /\ Len(stack') = Len(stack)
           /\ stack'[Len(stack')].results = Append(Top.results, cache[Chunk])
           /\ stack'[Len(stack')].i = Top.i + 1
           /\ UNCHANGED <<cache, cache_corrupt, remote_called>>

\* C13: in a chunked call with use_cache every chunk whose remote call succeeded is
\* stored under its own chunk text, the oversized prompt is never a key, and a chunk
\* whose text is a key is served from the cache without a remote call.
C13_ChunkCacheKeys ==
    [][ ChunkStored /\ PromptNotKey /\ ChunkServed ]_vars

\* C14: whenever the alarm armed for a chunk attempt goes off, the attempt ends as
\* one failed attempt of the chunk-level retry loop; an attempt never ends with an
\* exception that leaves process_chunks_with_timeout and call_llm.
C14_TimeoutCaught ==
    [][ InChunkAttempt =>
          /\ status' = "running"
          /\ AttemptCounted \/ ChunkResultIs(Response(Chunk, ncalls)) ]_vars

\* The stop flag of every progress thread an activation started is set, but for
\* the thread of the chunk whose call_llm is still running.
FlagsSet(f) ==
    \A k \in 1..Len(f.stop_flags) :
        f.stop_flags[k] \/ (k = Len(f.stop_flags) /\ f.pc = "in_call")

\* C18: the progress thread started for a chunk is signalled to stop on every exit
\* path of the chunk's processing (cache hit, returned call, raised failure): when
\* process_chunks_with_timeout returns it has started one thread per chunk and set
\* every stop flag, and what it returns is the list of results alone.
C18_ProgressStopped ==
    [][ /\ \A d \in 1..Len(stack) : FlagsSet(stack[d])
        /\ (variant = "utils" /\ Running("chunks") /\ Len(stack') < Len(stack))
              => /\ Len(Top.stop_flags) = Len(Top.chunks)
                 /\ \A k \in 1..Len(Top.stop_flags) : Top.stop_flags[k]
                 /\ Hands(Join(Top.results, SEP)) ]_vars

\* A loop is about to return after a chunk served from the cache (with the response
\* the first call stored) and a chunk whose call raised.
C18_Witness ==
    /\ variant = "utils"
    /\ Running("chunks")
    /\ Top.i > Len(Top.chunks)
    /\ Len(Top.stop_flags) = 2
    /\ Top.stop_flags = <<TRUE, TRUE>>
    /\ \E k \in 1..2 : Top.results[k] = ErrorMarker(k)
    /\ ncalls = 2
    /\ \E k \in 1..2 : Top.results[k] = Response(Top.chunks[k], 1)

\* The wait the claim gives after the k-th failed attempt of a chunk.
ClaimedBackoff(k) == CASE k = 1 -> 30 [] k = 2 -> 60 [] OTHER -> 0

\* C19: a chunk that is not a cache hit gets at most 3 remote attempts; the k-th
\* failed attempt is followed by a wait of 30 s (k = 1) or 60 s (k = 2) and then by
\* the next attempt, the third by no wait; the loop stops at the first success.
C19_ChunkRetry ==
    [][ /\ Running("chunk_attempt") => Top.retry_count <= 3
        /\ InChunkAttempt =>
              \/ ChunkResultIs(Response(Chunk, ncalls))
              \/ /\ AttemptCounted
                 /\ stack'[Len(stack')].backoff = ClaimedBackoff(Top.retry_count + 1) ]_vars

\* A step that makes a remote call for a chunk of a chunked request.
RemoteAttemptForChunk ==
    \/ Running("attempt") /\ Top.retry_count < max_retries /\ Len(stack) > 1
    \/ InChunkAttempt

\* The remote call is an attempt of call_llm's retry loop (its counters and its
\* class-based waits).
InRetryPolicy == Top.pc = "attempt"

\* The remote call is made inside the chunk-level loop (alarm and whole-chunk
\* retries) of the activation that owns the chunk.
UnderChunkRetry == \E d \in 1..Len(stack) : stack[d].pc = "chunk_attempt"

\* C20: every remote call made for a chunk is an attempt of the direct-mode retry
\* loop on that chunk and is made under the per-chunk timeout and whole-chunk
\* retries.
C20_ChunkDirectFlow ==
    [][ RemoteAttemptForChunk => (InRetryPolicy /\ UnderChunkRetry) ]_vars

\* In this step a chunk loop records the result of its current chunk: the loop of
\* the innermost activation, or the loop of its caller when the call made for the
\* chunk ends.
RecordStep ==
    /\ status' = "running"
    /\ stack' # <<>>
    /\ \/ /\ Len(stack') = Len(stack)
          /\ Len(stack'[Len(stack')].results) = Len(Top.results) + 1
       \/ /\ Len(stack) > 1
          /\ Len(stack') = Len(stack) - 1

\* The loop that records, before the step.
Recorder == IF Len(stack') = Len(stack) THEN Top ELSE Caller

\* The recorded result comes from the lookup of the chunk loop.
WasCacheHit == Len(stack') = Len(stack) /\ InLoop /\ Hit(Chunk)

\* Every loop has recorded the results of exactly the chunks before its current one.
OneAfterAnother ==
    \A d \in 1..Len(stack) :
        stack[d].pc \in {"chunks", "in_call", "chunk_attempt"}
            => Len(stack[d].results) = stack[d].i - 1

\* A step that starts the processing of a chunk finds the pause over and leaves none.
StartsChunk == InLoop /\ ~Hit(Chunk)

\* C23 as claimed: chunk k+1 starts only after the result of chunk k is recorded;
\* the recording of chunk k is followed by a pause in [30, 45) seconds if and only
\* if chunk k was no cache hit and is not the last chunk (also after a failure
\* marker).
C23_SequentialAsClaimed ==
    [][ /\ OneAfterAnother
        /\ RecordStep =>
              IF WasCacheHit \/ Recorder.i = Len(Recorder.chunks)
              THEN stack'[Len(stack')].pause = 0
              ELSE /\ 30000 <= stack'[Len(stack')].pause
                   /\ stack'[Len(stack')].pause < 45000 ]_vars

\* C23: chunk k+1 starts only after the result of chunk k is recorded; the recording
\* of chunk k is followed by a pause in [30, 45] seconds if and only if chunk k was no
\* cache hit and is not the last chunk (also after a failure marker).
C23_Sequential ==
    [][ /\ OneAfterAnother
        /\ RecordStep =>
              IF WasCacheHit \/ Recorder.i = Len(Recorder.chunks)
              THEN stack'[Len(stack')].pause = 0
              ELSE /\ 30000 <= stack'[Len(stack')].pause
                   /\ stack'[Len(stack')].pause <= 45000 ]_vars

\* A loop sleeps 37.5 s after recording a failure marker for the first of its two
\* chunks.
C23_Witness ==
    /\ Running("chunks")
    /\ Top.i = 2
    /\ Len(Top.chunks) = 2
    /\ Len(Top.results) = 1
    /\ IsMarker(Top.results[1][1])
    /\ Top.pause = 37500

\* The top-level call ends in this step.
CallEnds == status = "running" /\ status' \in {"returned", "raised"}

\* The log holds a record of the outcome after the PROMPT record of the call.
OutcomeLogged ==
    \E k \in 2..Len(log') :
        IF status' = "returned"
        THEN log'[k] = LogRec("RESPONSE", result')
        ELSE log'[k].kind \in {"ERROR", "FAILURE"} /\ log'[k].body = result'

\* The call starts with its PROMPT record.
PromptLogged ==
    (status' = "running" /\ ncalls' = ncalls + 1)
        => (log' # <<>> /\ log'[Len(log')] = LogRec("PROMPT", prompt'))

\* Within a call the log is only appended to.
AppendOnly == (ncalls' = ncalls) => (Len(log) <= Len(log') /\ SubSeq(log', 1, Len(log)) = log)

\* C26: every top-level call appends a PROMPT record when it starts and, before it
\* ends, a record of its outcome: the returned text (cache hit, direct-mode success
\* and combined chunked result alike) or the failure it raises; the log is only
\* appended to.
C26_AuditLog ==
    [][ /\ PromptLogged
        /\ AppendOnly
        /\ (CallEnds /\ ~truncated) => OutcomeLogged ]_vars

\* Every response in the text r was given by the remote model in the current
\* top-level call.
AllFresh(r) == \A k \in 1..Len(r) : r[k].t = "response" => r[k].n = ncalls

\* C27: during a call with use_cache = false the cache file is neither read nor
\* written: the file stays as it is, a prompt or chunk goes to the remote call even
\* when the file holds an entry for it, and no returned response comes from the file.
C27_NoCacheUntouched ==
    [][ (status = "running" /\ ~use_cache) =>
          /\ UNCHANGED <<cache, cache_corrupt>>
          /\ (Running("entry") /\ Direct(Top.prompt))
                => (Len(stack') = Len(stack) /\ stack'[Len(stack')].pc = "attempt")
          /\ InLoop
                => (stack' # <<>> /\ stack'[Len(stack')].pc \in {"entry", "chunk_attempt"})
          /\ status' = "returned" => AllFresh(result') ]_vars

\* A chunked call with use_cache = false returned fresh responses for chunks that the
\* call before it had stored, and the file still holds the stored ones.
C27_Witness ==
    /\ status = "returned"
    /\ ~use_cache
    /\ ~Direct(prompt)
    /\ remote_called
    /\ prev.status = "returned"
    /\ prev.use_cache
    /\ prev.prompt = prompt
    /\ ~cache_corrupt
    /\ Len(result) = 3
    /\ NoMarker(result)
    /\ \A k \in {1, 3} : /\ result[k].p \in DOMAIN cache
                         /\ cache[result[k].p] = Response(result[k].p, 1)
                         /\ result[k].n = 2

\* A chunk loop hands its results back.
LoopReturns == Running("chunks") /\ Top.i > Len(Top.chunks)

\* C29 as claimed: after a chunked call in which chunk k ended as a failure marker
\* the cache holds no entry for the text of chunk k.
C29_MarkerNotPersistedAsClaimed ==
    [][ LoopReturns =>
          \A k \in 1..Len(Top.results) :
              ~NoMarker(Top.results[k]) => Top.chunks[k] \notin Persisted' ]_vars

\* No value of the cache file holds a failure marker.
MarkerFree == \A key \in DOMAIN cache : NoMarker(cache[key])

\* An entry appears or changes only in a step in which the remote call for that very
\* text answers, and it is the response.
StoredOnlyOnSuccess ==
    \A key \in Persisted' :
        (key \notin Persisted \/ cache'[key] # cache[key])
            => /\ StoreStep
               /\ key = ChunkAtWork
               /\ cache'[key] = Response(key, ncalls)

\* C29: a failure marker is never persisted.  The file gets an entry for a text only
\* in the step in which the remote call for that text succeeds; the step that
\* records a failure marker leaves the file as it is; no value of the file holds a
\* marker, so a chunk served from the file is never served a marker.  (The text of a
\* chunk that ended as a marker may still be a key: stored by an earlier call, or for
\* another chunk with the same text.)
C29_MarkerNotPersisted ==
    [][ /\ MarkerFree
        /\ StoredOnlyOnSuccess
        /\ ChunkExhaustedStep => UNCHANGED <<cache, cache_corrupt>>
        /\ (InLoop /\ Hit(Chunk)) =>
              (stack' # <<>> /\ NoMarker(stack'[Len(stack')].results[Top.i])) ]_vars

\* The second of two calls with the same chunked prompt got a fresh response for the
\* chunk that had ended as a failure marker in the first.
C29_Witness ==
    /\ status = "returned"
    /\ use_cache
    /\ prev.use_cache
    /\ prev.status = "returned"
    /\ prev.prompt = prompt
    /\ ~Direct(prompt)
    /\ Len(prev.result) = 3
    /\ IsMarker(prev.result[1])
    /\ Len(result) = 3
    /\ result[1] = Tok("response", Chunks[prompt][1], 2)
    /\ remote_called

(***************************************************************************)
(* Chunker runs: chunk_text applied to every text over a small alphabet    *)
(***************************************************************************)
MaxLen == 7
MaxMaxSize == 4

Alphabet == {"a", ".", SP, NL}

Texts == UNION {[1..n -> Alphabet] : n \in 0..MaxLen}

MaxSizes == 2..MaxMaxSize

\* No call is in progress.
NoCallRunning ==
    /\ variant = "utils"
    /\ stack = <<>>
    /\ truncated = FALSE
    /\ prompt = <<>>
    /\ use_cache = TRUE
    /\ status = "idle"
    /\ result = <<>>
    /\ remote_called = FALSE
    /\ store_lost = FALSE
    /\ last_write = "none"
    /\ log = <<>>
    /\ prev = NoCall
    /\ ncalls = 0

\* No call is in progress while the chunker runs, and there is no cache file.
OrchestratorIdle ==
    /\ NoCallRunning
    /\ cache = <<>>
    /\ cache_corrupt = FALSE

InitChunker ==
    /\ text \in Texts
    /\ max_size \in MaxSizes
    /\ segments = <<>>
    /\ cpc = "ready"
    /\ BackoffIdle
    /\ RaceIdle
    /\ ProgressIdle
    /\ OrchestratorIdle

RunChunkText ==
    /\ cpc = "ready"
    /\ segments' = chunk_text(text, max_size)
    /\ cpc' = "done"
    /\ UNCHANGED <<text, max_size>>
    /\ UNCHANGED <<bvars, rvars, pvars, ovars>>

NextChunker == RunChunkText

SpecChunker == InitChunker /\ [][NextChunker]_vars

\* T is the segments in order with a separator between neighbours: the "\n\n" of a
\* paragraph boundary or the blank or line break after a sentence terminator.
Separators == {<<NL, NL>>, <<SP>>, <<NL>>}

RECURSIVE Rebuilds(_, _)
Rebuilds(t, segs) ==
    IF segs = <<>> THEN t = <<>>
    ELSE /\ IsPrefix(Head(segs), t)
         /\ LET rest == Drop(t, Len(Head(segs)))
            IN  IF Len(segs) = 1 THEN rest = <<>>
                ELSE \E sep \in Separators :
                        /\ IsPrefix(sep, rest)
                        /\ Rebuilds(Drop(rest, Len(sep)), Tail(segs))

\* C7: every segment chunk_text returns is at most max_size long, unless it is one
\* single sentence that is longer than max_size.
C7_SizeBound ==
    cpc = "done" =>
        \A k \in 1..Len(segments) :
            \/ Len(segments[k]) <= max_size
            \/ split_into_sentences(segments[k]) = <<segments[k]>>

\* C8: the segments of chunk_text(T, max_size), in order and with the separators
\* that stood between them, are T again, with no character dropped, altered or
\* duplicated.
C8_Lossless == cpc = "done" => Rebuilds(text, segments)

\* C9: for len(T) > max_size chunk_text returns at least 2 segments.
C9_AtLeastTwoSegments ==
    (cpc = "done" /\ Len(text) > max_size) => Len(segments) >= 2

\* C28: no segment chunk_text returns is the empty string.
C28_NoEmptySegment ==
    cpc = "done" => \A k \in 1..Len(segments) : segments[k] # <<>>

(***************************************************************************)
(* Backoff runs: the retry loop of call_llm under a sequence of failures,  *)
(* at the source's own limits                                              *)
(***************************************************************************)
\* max_retries and max_connection_errors as the source has them.
max_retries_src == 20
max_connection_errors_src == 10

Messages ==
    { <<"Connection reset">>,
      <<"ConnectError">>,
      <<"Connection reset", "429">>,
      <<"ConnectError", "RESOURCE_EXHAUSTED", RETRY_DELAY, "1", "2", S_QUOTE>>,
      <<"429">>,
      <<"RESOURCE_EXHAUSTED">>,
      <<"429", RETRY_DELAY, "1", "2", S_QUOTE>>,
      <<"RESOURCE_EXHAUSTED", RETRY_DELAY, "9", "0", S_QUOTE>>,
      <<"429", RETRY_DELAY, "0", S_QUOTE>>,
      <<"429", "retryDelay">>,
      <<"429", RETRY_DELAY, "x", S_QUOTE>>,
      <<"timeout">> }

InitBackoff ==
    /\ bo = [pc |-> "loop", retry_count |-> 0, connection_errors |-> 0,
             error_msg |-> <<>>, cooldown |-> 0, wait_time |-> 0,
             attempts |-> 0, streak |-> 0, sleeps |-> 0]
    /\ RaceIdle
    /\ ProgressIdle
    /\ ChunkerIdle
    /\ OrchestratorIdle

\* HandleFailure that leaves the counter as it is after the cooldown.
HandleFailureKeepsCounter(msg, r1, r2) ==
    /\ bo.pc = "loop"
    /\ bo.retry_count < max_retries_src
    /\ bo' = [pc |-> "loop",
              retry_count |-> bo.retry_count + 1,
              connection_errors |->
                  IF IsConnectionReset(msg) THEN bo.connection_errors + 1
                  ELSE bo.connection_errors,
              error_msg |-> msg,
              cooldown |->
                  IF IsConnectionReset(msg)
                     /\ bo.connection_errors + 1 >= max_connection_errors_src
                  THEN extra_wait * 1000 ELSE 0,
              wait_time |-> wait_time(msg, bo.retry_count + 1, r1, r2),
              attempts |-> bo.attempts + 1,
              streak |-> IF IsConnectionReset(msg) THEN bo.streak + 1 ELSE 0,
              sleeps |-> bo.sleeps + 1]
    /\ UNCHANGED <<cvars, rvars, pvars, ovars>>

\* Lines 138-224: generate_content raises an exception whose text is msg; the
\* handler counts it, sleeps the cooldown (if due) and wait_time.
HandleFailure(msg, r1, r2) ==
    /\ bo.pc = "loop"
    /\ bo.retry_count < max_retries_src
    /\ bo' = [pc |-> "loop",
              retry_count |-> bo.retry_count + 1,
              connection_errors |->
                  IF IsConnectionReset(msg)
                  THEN (IF bo.connection_errors + 1 >= max_connection_errors_src
                        THEN 0 ELSE bo.connection_errors + 1)
                  ELSE bo.connection_errors,
              error_msg |-> msg,
              cooldown |->
                  IF IsConnectionReset(msg)
                     /\ bo.connection_errors + 1 >= max_connection_errors_src
                  THEN extra_wait * 1000 ELSE 0,
              wait_time |-> wait_time(msg, bo.retry_count + 1, r1, r2),
              attempts |-> bo.attempts + 1,
              streak |-> IF IsConnectionReset(msg) THEN bo.streak + 1 ELSE 0,
              sleeps |-> bo.sleeps + 1]
    /\ UNCHANGED <<cvars, rvars, pvars, ovars>>

\* Lines 92-136: generate_content answers and call_llm returns.
AttemptSucceeds ==
    /\ bo.pc = "loop"
    /\ bo.retry_count < max_retries_src
    /\ bo' = [bo EXCEPT !.pc = "returned", !.attempts = @ + 1]
    /\ UNCHANGED <<cvars, rvars, pvars, ovars>>

\* LoopExhausted that gives up one attempt early.
LoopExhaustedEarly ==
    /\ bo.pc = "loop"
    /\ bo.retry_count >= max_retries_src - 1
    /\ bo' = [bo EXCEPT !.pc = "raised"]
    /\ UNCHANGED <<cvars, rvars, pvars, ovars>>

\* Lines 226-228.
LoopExhausted ==
    /\ bo.pc = "loop"
    /\ bo.retry_count >= max_retries_src
    /\ bo' = [bo EXCEPT !.pc = "raised"]
    /\ UNCHANGED <<cvars, rvars, pvars, ovars>>

NextBackoff ==
    \/ \E msg \in Messages, r1 \in Randoms, r2 \in Randoms : HandleFailure(msg, r1, r2)
    \/ AttemptSucceeds
    \/ LoopExhausted

SpecBackoff == InitBackoff /\ [][NextBackoff]_vars

\* A step that handles a failure.
FailureStep == bo.pc = "loop" /\ bo'.pc = "loop" /\ bo'.retry_count = bo.retry_count + 1

\* The cooldown and the counter after a failure of the connection-reset class.
CooldownAtThreshold ==
    IF bo.connection_errors + 1 >= max_connection_errors_src
    THEN bo'.cooldown = 180000 /\ bo'.connection_errors = 0
    ELSE bo'.cooldown = 0 /\ bo'.connection_errors = bo.connection_errors + 1

\* C15 as claimed: a failure whose message contains "Connection reset" or
\* "ConnectError" is followed by a wait in [45, 60) seconds, and when the counter
\* reaches the threshold a cooldown of exactly 180 seconds is taken and the counter
\* is reset to 0.
C15_ConnectionResetAsClaimed ==
    [][ (FailureStep /\ IsConnectionReset(bo'.error_msg)) =>
          /\ 45000 <= bo'.wait_time /\ bo'.wait_time < 60000
          /\ CooldownAtThreshold ]_vars

\* C15: a failure whose message contains "Connection reset" or "ConnectError" is
\* followed by a wait in [45, 60] seconds, and when the counter reaches the threshold
\* a cooldown of exactly 180 seconds is taken before that wait and the counter is
\* reset to 0; below the threshold there is no cooldown and the counter goes up by 1.
C15_ConnectionReset ==
    [][ (FailureStep /\ IsConnectionReset(bo'.error_msg)) =>
          /\ 45000 <= bo'.wait_time /\ bo'.wait_time <= 60000
          /\ CooldownAtThreshold ]_vars

\* The tenth connection reset of a call took the cooldown and then waited 60 s.
C15_Witness ==
    /\ bo.pc = "loop"
    /\ IsConnectionReset(bo.error_msg)
    /\ bo.retry_count > max_connection_errors_src
    /\ bo.cooldown = 180000
    /\ bo.connection_errors = 0
    /\ bo.wait_time = 60000

\* The message carries no retryDelay at all.
NoHint(msg) == ~Contains(msg, <<RETRY_DELAY>>) /\ ~Contains(msg, <<"retryDelay">>)

\* A failure of the rate-limit class (the connection-reset class comes first).
RateLimitStep ==
    /\ FailureStep
    /\ ~IsConnectionReset(bo'.error_msg)
    /\ Contains(bo'.error_msg, <<"RESOURCE_EXHAUSTED">>) \/ Contains(bo'.error_msg, <<"429">>)

\* C16: for a rate-limit failure without a server hint that occurs when `retries`
\* earlier failures have been counted, the wait lies in
\* [base*0.8, min(base + retries*5, cap)*1.2] with base = 15 and cap = 60.
C16_RateLimitDefault ==
    [][ (RateLimitStep /\ NoHint(bo'.error_msg)) =>
          /\ 15 * 800 <= bo'.wait_time
          /\ bo'.wait_time <= Min(15 + bo.retry_count * 5, 60) * 1200 ]_vars

\* The hints of the messages and the text that carries them.
Hints == {0, 12, 90}

HintText(h) == CASE h = 0 -> <<"0">> [] h = 12 -> <<"1", "2">> [] h = 90 -> <<"9", "0">>

Carries(msg, h) == Contains(msg, <<RETRY_DELAY>> \o HintText(h) \o <<S_QUOTE>>)

\* C17: for a rate-limit failure whose message carries a retryDelay of h seconds the
\* wait is h*factor with factor in [1.0, 1.2], whatever retry_count is; the default
\* formula of lines 155-156 gives the wait only when no retryDelay is present or it
\* cannot be parsed.
C17_ServerHint ==
    [][ RateLimitStep =>
          IF \E h \in Hints : Carries(bo'.error_msg, h)
          THEN \A h \in Hints : Carries(bo'.error_msg, h) =>
                   (h * 1000 <= bo'.wait_time /\ bo'.wait_time <= h * 1200)
          ELSE /\ Min(15 + bo'.retry_count * 5, 60) * 800 <= bo'.wait_time
               /\ bo'.wait_time <= Min(15 + bo'.retry_count * 5, 60) * 1200 ]_vars

\* A late failure with the hint 12 waited 12 * 1.1 seconds, below every default wait.
C17_Witness ==
    /\ bo.pc = "loop"
    /\ bo.retry_count > 9
    /\ Carries(bo.error_msg, 12)
    /\ bo.wait_time = 13200

\* C21: the forced 180 s cooldown is taken only when the 10 most recent failures of
\* the call were all of the connection-reset class, and a failure of another class
\* restarts the count of connection errors.
C21_ConsecutiveCounter ==
    [][ FailureStep =>
          /\ bo'.cooldown = 180000 => bo'.streak >= max_connection_errors_src
          /\ ~IsConnectionReset(bo'.error_msg) => bo'.connection_errors = 0 ]_vars

\* The counter of connection errors and the cooldown are as before the failure.
NotCountedAsConnection ==
    bo'.connection_errors = bo.connection_errors /\ bo'.cooldown = 0

\* The wait of the rate-limit class: the hint of the message with its factor, or
\* the default formula when the message carries none.
RateLimitWait ==
    IF \E h \in Hints : Carries(bo'.error_msg, h)
    THEN \E h \in Hints : /\ Carries(bo'.error_msg, h)
                          /\ h * 1000 <= bo'.wait_time
                          /\ bo'.wait_time <= h * 1200
    ELSE /\ Min(15 + bo'.retry_count * 5, 60) * 800 <= bo'.wait_time
         /\ bo'.wait_time <= Min(15 + bo'.retry_count * 5, 60) * 1200

\* The failure is handled as one of the connection-reset class.
ConnectionClass ==
    /\ CooldownAtThreshold
    /\ 45000 <= bo'.wait_time
    /\ bo'.wait_time <= 60000

\* C22 as claimed: a failure whose message has a connection-reset phrase is handled
\* as connection-reset class whatever else the message contains; otherwise one with
\* RESOURCE_EXHAUSTED or 429 is rate-limit class; every other failure waits in
\* [15, 25) seconds.
C22_PrecedenceAsClaimed ==
    [][ FailureStep =>
          IF IsConnectionReset(bo'.error_msg) THEN ConnectionClass
          ELSE IF IsRateLimit(bo'.error_msg)
               THEN NotCountedAsConnection /\ RateLimitWait
               ELSE /\ NotCountedAsConnection
                    /\ 15000 <= bo'.wait_time
                    /\ bo'.wait_time < 25000 ]_vars

\* C22: a failure whose message has a connection-reset phrase is handled as
\* connection-reset class whatever else the message contains; otherwise one with
\* RESOURCE_EXHAUSTED or 429 is rate-limit class; every other failure waits in
\* [15, 25] seconds; each failure gets the wait of exactly that one class.
C22_Precedence ==
    [][ FailureStep =>
          IF IsConnectionReset(bo'.error_msg) THEN ConnectionClass
          ELSE IF IsRateLimit(bo'.error_msg)
               THEN NotCountedAsConnection /\ RateLimitWait
               ELSE /\ NotCountedAsConnection
                    /\ 15000 <= bo'.wait_time
                    /\ bo'.wait_time <= 25000 ]_vars

\* A message with a connection-reset phrase, RESOURCE_EXHAUSTED and a retryDelay of
\* 12 s was counted as a connection error and waited 52.5 s.
C22_Witness ==
    /\ bo.pc = "loop"
    /\ IsConnectionReset(bo.error_msg)
    /\ IsRateLimit(bo.error_msg)
    /\ Carries(bo.error_msg, 12)
    /\ bo.connection_errors = 1
    /\ bo.wait_time = 52500

\* A step in which generate_content is called.
AttemptStep == bo'.attempts = bo.attempts + 1

\* C24: a call whose remote calls all fail makes exactly max_retries (20) attempts,
\* sleeps after every failed one (the last included) and then raises; no attempt is
\* made once retry_count has reached max_retries; an attempt that succeeds ends the
\* loop at once.
C24_RetryBudget ==
    [][ /\ bo'.pc = "raised" =>
              /\ bo.retry_count = max_retries_src
              /\ bo.attempts = max_retries_src
              /\ bo.sleeps = max_retries_src
              /\ bo'.attempts = bo.attempts
        /\ FailureStep => (AttemptStep /\ bo'.sleeps = bo.sleeps + 1)
        /\ bo.retry_count >= max_retries_src => ~AttemptStep
        /\ (AttemptStep /\ ~FailureStep) =>
              /\ bo'.pc = "returned"
              /\ bo'.retry_count = bo.retry_count
              /\ bo'.sleeps = bo.sleeps
        /\ bo.pc \in {"returned", "raised"} => bo' = bo ]_vars

\* The loop raised after 20 attempts and 20 sleeps.
C24_Witness ==
    /\ bo.pc = "raised"
    /\ bo.attempts = 20
    /\ bo.retry_count = 20
    /\ bo.sleeps = 20

(***************************************************************************)
(* Store races: two processes run the store of call_llm (lines 116-130;    *)
(* save_to_cache in the site copy) on the same cache file                  *)
(***************************************************************************)
Procs == {1, 2}

Other(q) == 3 - q

\* The prompts the two processes store, and an entry the file may hold already.
RacePrompts == {<<"a">>, <<"b">>, <<"a", "b">>}
OldPrompt == <<"b", "a">>

\* One process in the store: map is its local `cache`; dirty: bytes of a dump made
\* by the other process since this one opened the file for writing are in the file;
\* err: its write raised (and was logged).
Writer(key, n) == [pc |-> "start", key |-> key, value |-> Response(key, n),
                   map |-> <<>>, dirty |-> FALSE, err |-> FALSE]

InitRace ==
    /\ \E k1 \in RacePrompts, k2 \in RacePrompts :
          /\ k1 # k2
          /\ writers = [proc |-> <<Writer(k1, 1), Writer(k2, 2)>>, last |-> 0]
    /\ cache \in {<<>>, Put(<<>>, OldPrompt, Response(OldPrompt, 0))}
    /\ cache_corrupt \in BOOLEAN
    /\ cache_corrupt => cache = <<>>
    /\ ChunkerIdle
    /\ BackoffIdle
    /\ ProgressIdle
    /\ NoCallRunning

Proc(q) == writers.proc[q]

SetProc(q, rec) == [writers EXCEPT !.proc[q] = rec]

\* Lines 117-123: cache = {}, then json.load of the file; a file that does not parse
\* (an empty one, just opened for writing by the other process, included) leaves {}.
StoreLoad(q) ==
    /\ Proc(q).pc = "start"
    /\ writers' = SetProc(q, [Proc(q) EXCEPT !.pc = "loaded", !.map = LoadOrEmpty])
    /\ UNCHANGED <<cvars, bvars, pvars, fvars, hvars, tvars, stack, truncated, status, result>>

\* Lines 124-126: cache[prompt] = response_text and open(cache_file, "w"), which
\* empties the file, or fails and leaves it.
StoreOpen(q, ok) ==
    /\ Proc(q).pc = "loaded"
    /\ IF ok
       THEN /\ writers' = SetProc(q, [Proc(q) EXCEPT
                              !.pc = "opened",
                              !.map = Put(@, Proc(q).key, Proc(q).value),
                              !.dirty = FALSE])
            /\ cache' = <<>>
            /\ cache_corrupt' = TRUE
       ELSE /\ writers' = SetProc(q, [Proc(q) EXCEPT
                              !.pc = "done",
                              !.map = Put(@, Proc(q).key, Proc(q).value),
                              !.err = TRUE])
            /\ UNCHANGED fvars
    /\ UNCHANGED <<cvars, bvars, pvars, hvars, tvars, stack, truncated, status, result>>

\* StoreDump that adds its entry to what the file holds.
StoreDumpMerging(q, ok, clean) ==
    /\ Proc(q).pc = "opened"
    /\ clean
    /\ IF ok
       THEN /\ cache' = Put(cache, Proc(q).key, Proc(q).value)
            /\ cache_corrupt' = FALSE
            /\ writers' = [proc |-> [writers.proc EXCEPT ![q].pc = "done",
                                                        ![Other(q)].dirty = TRUE],
                           last |-> q]
       ELSE /\ cache' = <<>>
            /\ cache_corrupt' = TRUE
            /\ writers' = SetProc(q, [Proc(q) EXCEPT !.pc = "done", !.err = TRUE])
    /\ UNCHANGED <<cvars, bvars, pvars, hvars, tvars, stack, truncated, status, result>>

\* Lines 126-127: json.dump and the close of the file.  The bytes go to the start
\* of the file; when the other process has dumped since this one opened, its bytes
\* are underneath and what sticks out behind the shorter text stays: the file is
\* this process's map (clean) or does not parse.
StoreDump(q, ok, clean) ==
    /\ Proc(q).pc = "opened"
    /\ clean \/ Proc(q).dirty
    /\ IF ok
       THEN /\ cache' = IF clean THEN Proc(q).map ELSE <<>>
            /\ cache_corrupt' = ~clean
            /\ writers' = [proc |-> [writers.proc EXCEPT
                                        ![q].pc = "done",
                                        ![Other(q)].dirty =
                                            (@ \/ Proc(Other(q)).pc = "opened")],
                           last |-> q]
       ELSE /\ cache' = <<>>
            /\ cache_corrupt' = TRUE
            /\ writers' = SetProc(q, [Proc(q) EXCEPT !.pc = "done", !.err = TRUE])
    /\ UNCHANGED <<cvars, bvars, pvars, hvars, tvars, stack, truncated, status, result>>

NextRace ==
    \/ \E q \in Procs : StoreLoad(q)
    \/ \E q \in Procs, ok \in BOOLEAN : StoreOpen(q, ok)
    \/ \E q \in Procs, ok \in BOOLEAN, clean \in BOOLEAN : StoreDump(q, ok, clean)

SpecRace == InitRace /\ [][NextRace]_vars

\* Both stores have completed without error.
BothStored ==
    /\ writers.proc # <<>>
    /\ \A q \in Procs : Proc(q).pc = "done" /\ ~Proc(q).err

\* C25: last writer wins.  When both stores have completed without error, the file
\* (if it parses) is the map the process that dumped last had loaded, plus its own
\* entry: the entry of the other process is in the file only if the last writer
\* loaded it, and nothing is merged at write time.
C25_LastWriterWins ==
    BothStored =>
        /\ writers.last \in Procs
        /\ cache_corrupt => Proc(writers.last).dirty
        /\ ~cache_corrupt =>
              /\ cache = Proc(writers.last).map
              /\ Proc(writers.last).key \in DOMAIN cache
              /\ (Proc(Other(writers.last)).key \in DOMAIN cache
                    <=> Proc(Other(writers.last)).key \in DOMAIN Proc(writers.last).map)

\* Both stores completed without error, the file parses and holds the entry of one
\* process only.
C25_Witness ==
    /\ BothStored
    /\ ~cache_corrupt
    /\ \E q \in Procs : /\ Proc(q).key \in DOMAIN cache
                        /\ cache[Proc(q).key] = Proc(q).value
                        /\ Proc(Other(q)).key \notin DOMAIN cache

(***************************************************************************)
(* Progress runs: the loop of process_chunks_with_timeout (utils) and the  *)
(* progress threads it starts, one per chunk                               *)
(***************************************************************************)
MaxProgressChunks == 3

\* pg.i is the loop variable i (here chunk numbers from 1) and the last element of
\* pg.flags is the Event bound to progress_stop_flag: check_progress_repeatedly is a
\* closure, and every thread reads both names in the frame of the function, as they
\* are bound when it reads them.
progress_stop_flag == Len(pg.flags)

\* A thread: where it is in check_progress_repeatedly, and the Event its wait(60)
\* was called on.
Thread(pc, on) == [pc |-> pc, on |-> on]

InitProgress ==
    /\ \E n \in 1..MaxProgressChunks :
          pg = [pc |-> "top", n |-> n, i |-> 0, flags |-> <<>>, used_cache |-> FALSE,
                threads |-> <<>>]
    /\ ChunkerIdle
    /\ BackoffIdle
    /\ RaceIdle
    /\ OrchestratorIdle

Others == <<cvars, bvars, rvars, ovars>>

\* Line 315: the for statement binds i to the next chunk, or the loop ends (line 371).
LoopNext ==
    /\ pg.pc = "top"
    /\ pg' = IF pg.i < pg.n
             THEN [pg EXCEPT !.i = @ + 1, !.pc = "start", !.used_cache = FALSE]
             ELSE [pg EXCEPT !.pc = "done"]
    /\ UNCHANGED Others

\* Lines 324-335: a new Event is bound to progress_stop_flag and the thread starts.
StartThread ==
    /\ pg.pc = "start"
    /\ pg' = [pg EXCEPT !.flags = Append(@, FALSE),
                        !.threads = Append(@, Thread("check", 0)),
                        !.pc = "work"]
    /\ UNCHANGED Others

\* Lines 337-359: the chunk comes from the cache, or call_llm returns or raises.
ProcessChunk(hit) ==
    /\ pg.pc = "work"
    /\ pg' = [pg EXCEPT !.used_cache = hit, !.pc = "finally"]
    /\ UNCHANGED Others

\* Line 361: progress_stop_flag.set()
SetStopFlag ==
    /\ pg.pc = "finally"
    /\ pg' = [pg EXCEPT !.flags[progress_stop_flag] = TRUE, !.pc = "append"]
    /\ UNCHANGED Others

\* Every thread is gone or waits on an Event that is not set.
Settled ==
    \A t \in 1..Len(pg.threads) :
        \/ pg.threads[t].pc = "dead"
        \/ pg.threads[t].pc = "waiting" /\ ~pg.flags[pg.threads[t].on]

\* Lines 363-369: the result is appended; after a chunk that was no cache hit and is
\* not the last, the loop sleeps 30 to 45 s, long enough for every thread to run
\* until it is gone or waits again; after a cache hit the loop goes on at once.
AppendAndPause ==
    /\ pg.pc = "append"
    /\ (pg.i < pg.n /\ ~pg.used_cache) => Settled
    /\ pg' = [pg EXCEPT !.pc = "top"]
    /\ UNCHANGED Others

\* Line 328: while not progress_stop_flag.is_set()
ThreadCheck(t) ==
    /\ pg.threads[t].pc = "check"
    /\ pg' = [pg EXCEPT !.threads[t].pc =
                  IF pg.flags[progress_stop_flag] THEN "dead" ELSE "print"]
    /\ UNCHANGED Others

\* Lines 329-330: the notice "Still working on chunk {i+1}".
ThreadPrint(t) ==
    /\ pg.threads[t].pc = "print"
    /\ pg' = [pg EXCEPT !.threads[t].pc = "call_wait"]
    /\ UNCHANGED Others

\* Line 331: progress_stop_flag.wait(60) is called on the Event bound now.
ThreadWait(t) ==
    /\ pg.threads[t].pc = "call_wait"
    /\ pg' = [pg EXCEPT !.threads[t] = Thread("waiting", progress_stop_flag)]
    /\ UNCHANGED Others

\* Line 331: the wait returns, because its Event is set or the 60 s are over.
ThreadWake(t) ==
    /\ pg.threads[t].pc = "waiting"
    /\ pg' = [pg EXCEPT !.threads[t].pc = "check"]
    /\ UNCHANGED Others

NextProgress ==
    \/ LoopNext
    \/ StartThread
    \/ \E hit \in BOOLEAN : ProcessChunk(hit)
    \/ SetStopFlag
    \/ AppendAndPause
    \/ \E t \in 1..Len(pg.threads) : ThreadCheck(t)
    \/ \E t \in 1..Len(pg.threads) : ThreadPrint(t)
    \/ \E t \in 1..Len(pg.threads) : ThreadWait(t)
    \/ \E t \in 1..Len(pg.threads) : ThreadWake(t)

SpecProgress == InitProgress /\ [][NextProgress]_vars

\* Thread t emits a notice in this step.
Emits(t) ==
    /\ t <= Len(pg.threads)
    /\ pg.threads[t].pc = "print"
    /\ pg'.threads[t].pc = "call_wait"

\* C30: the thread started for chunk t stops on the stop flag of chunk t: it waits on
\* no other Event, and it emits its notices only while chunk t is being processed,
\* never during chunk t+1 or later.
C30_ProgressOwnSignal ==
    [][ \A t \in 1..MaxProgressChunks :
          /\ Emits(t) => pg.i = t
          /\ (t <= Len(pg'.threads) /\ pg'.threads[t].pc = "waiting")
                => pg'.threads[t].on = t ]_vars

====
